---- MODULE Spec2Model ----
(***************************************************************************)
(* EMIS Benchmark Dashboard (src/app.py): the session state of the         *)
(* Streamlit application, the batch search of tax ids (NITs) against the  *)
(* local benchmark store and the remote EMIS API, the pagination of the    *)
(* result list, and the flattening of benchmark payloads into rows.        *)
(*                                                                         *)
(* Text is modelled as a sequence of one-character strings, so that        *)
(* str.title(), str.replace() and float() act on characters as Python's    *)
(* do.  Column names of the exported rows are built by concatenation and   *)
(* are TLA+ strings.  A float is held in tenths (72.5 is 725).             *)
(***************************************************************************)
EXTENDS Integers, Sequences, FiniteSets, TLC

VARIABLES
    logged_in,          \* st.session_state['logged_in']
    emis_service,       \* st.session_state['emis_service']: "None" or "EMISService"
    search_results,     \* st.session_state['search_results']
    current_page,       \* st.session_state['current_page']
    local_benchmarks,   \* st.session_state['local_benchmarks']
    industry_names,     \* st.session_state['industry_names']
    local_file,         \* content of ./data/benchmarks.json (read at initialize)
    searches,           \* history: number of searches handled so far
    last_batch,         \* history: params.external_ids of the session's latest search
    last_responses,     \* history: the kinds of answer the remote API had, per position
    calls,              \* history: the events of the session's latest search
    last_action         \* history: the handler that ran last

vars == <<logged_in, emis_service, search_results, current_page, local_benchmarks,
          industry_names, local_file, searches, last_batch, last_responses, calls,
          last_action>>

-----------------------------------------------------------------------------
(* Characters and Python's str methods *)

Lowers == <<"a","b","c","d","e","f","g","h","i","j","k","l","m",
            "n","o","p","q","r","s","t","u","v","w","x","y","z">>
Uppers == <<"A","B","C","D","E","F","G","H","I","J","K","L","M",
            "N","O","P","Q","R","S","T","U","V","W","X","Y","Z">>
Digits == <<"0","1","2","3","4","5","6","7","8","9">>

Range(s) == {s[i] : i \in DOMAIN s}
IndexIn(s, c) == CHOOSE i \in DOMAIN s : s[i] = c
IsLower(c) == c \in Range(Lowers)
IsUpper(c) == c \in Range(Uppers)
IsCased(c) == IsLower(c) \/ IsUpper(c)
IsDigit(c) == c \in Range(Digits)
ToUpper(c) == IF IsLower(c) THEN Uppers[IndexIn(Lowers, c)] ELSE c
ToLower(c) == IF IsUpper(c) THEN Lowers[IndexIn(Uppers, c)] ELSE c

Min(a, b) == IF a < b THEN a ELSE b
Max(a, b) == IF a > b THEN a ELSE b

\* The characters of a text joined into one TLA+ string.
RECURSIVE Join(_)
Join(cs) == IF cs = <<>> THEN "" ELSE Head(cs) \o Join(Tail(cs))

\* str.title(): a cased character is upper-cased when the character before it
\* is not cased (or it is the first), and lower-cased otherwise.
TitleChar(cs, i) ==
    IF ~IsCased(cs[i]) THEN cs[i]
    ELSE IF i > 1 /\ IsCased(cs[i-1]) THEN ToLower(cs[i]) ELSE ToUpper(cs[i])
Title(cs) == [i \in DOMAIN cs |-> TitleChar(cs, i)]

\* str.replace('_', '')
RECURSIVE StripUnderscores(_)
StripUnderscores(cs) ==
    IF cs = <<>> THEN <<>>
    ELSE IF Head(cs) = "_" THEN StripUnderscores(Tail(cs))
    ELSE <<Head(cs)>> \o StripUnderscores(Tail(cs))

\* str(n) of a non-negative int
RECURSIVE IntToChars(_)
IntToChars(n) ==
    IF n < 10 THEN <<Digits[n + 1]>>
    ELSE IntToChars(n \div 10) \o <<Digits[(n % 10) + 1]>>

-----------------------------------------------------------------------------
(* JSON / Python values: every value is a record of the same shape *)

None       == [t |-> "none",  n |-> 0, s |-> <<>>, d |-> <<>>]
IntV(k)    == [t |-> "int",   n |-> k, s |-> <<>>, d |-> <<>>]
FloatV(k)  == [t |-> "float", n |-> k, s |-> <<>>, d |-> <<>>]   \* k in tenths
StrV(cs)   == [t |-> "str",   n |-> 0, s |-> cs,   d |-> <<>>]
DictV(kvs) == [t |-> "dict",  n |-> 0, s |-> <<>>, d |-> kvs]    \* <<key, value>> pairs, in order
ListV(vs)  == [t |-> "list",  n |-> 0, s |-> <<>>, d |-> vs]

IsDict(v) == v.t = "dict"

\* Python truthiness of a value
Truthy(v) ==
    CASE v.t = "none"  -> FALSE
      [] v.t = "int"   -> v.n # 0
      [] v.t = "float" -> v.n # 0
      [] v.t = "str"   -> v.s # <<>>
      [] OTHER         -> v.d # <<>>

\* x or y
Or(x, y) == IF Truthy(x) THEN x ELSE y

HasKey(dv, k) == \E i \in DOMAIN dv.d : dv.d[i][1] = k
\* dict.get(k, default)
Get(dv, k, default) ==
    IF HasKey(dv, k) THEN dv.d[CHOOSE i \in DOMAIN dv.d : dv.d[i][1] = k][2]
    ELSE default

\* str(v) of a value that is a str or an int
Str(v) == IF v.t = "str" THEN v.s ELSE IntToChars(v.n)

-----------------------------------------------------------------------------
(* Field names of the payloads, in both spellings *)

k_financial_scores == <<"f","i","n","a","n","c","i","a","l","_","s","c","o","r","e","s">>
k_financialScores  == <<"f","i","n","a","n","c","i","a","l","S","c","o","r","e","s">>
k_industry_code    == <<"i","n","d","u","s","t","r","y","_","c","o","d","e">>
k_industryCode     == <<"i","n","d","u","s","t","r","y","C","o","d","e">>
k_benchmark_score  == <<"b","e","n","c","h","m","a","r","k","_","s","c","o","r","e">>
k_benchmarkScore   == <<"b","e","n","c","h","m","a","r","k","S","c","o","r","e">>
k_average_ranking  == <<"a","v","e","r","a","g","e","_","r","a","n","k","i","n","g">>
k_averageRanking   == <<"a","v","e","r","a","g","e","R","a","n","k","i","n","g">>
k_company_count    == <<"c","o","m","p","a","n","y","_","c","o","u","n","t">>
k_companyCount     == <<"c","o","m","p","a","n","y","C","o","u","n","t">>
k_company_id       == <<"c","o","m","p","a","n","y","_","i","d">>
k_companyId        == <<"c","o","m","p","a","n","y","I","d">>
k_benchmark        == <<"b","e","n","c","h","m","a","r","k">>
k_period           == <<"p","e","r","i","o","d">>
k_risk             == <<"r","i","s","k">>
\* Further sections of a score block
k_growth           == <<"g","r","o","w","t","h">>
k_size             == <<"s","i","z","e">>
k_size_info        == <<"s","i","z","e","_","i","n","f","o">>
k_info             == <<"i","n","f","o">>
k_total            == <<"t","o","t","a","l">>
k_score            == <<"s","c","o","r","e">>
k_trend            == <<"t","r","e","n","d">>
k_valueUp          == <<"v","a","l","u","e","U","p">>
k_valueup          == <<"v","a","l","u","e","u","p">>
k_net_margin       == <<"n","e","t","_","m","a","r","g","i","n">>
k_net__margin      == <<"n","e","t","_","_","m","a","r","g","i","n">>

-----------------------------------------------------------------------------
(* CompanyInfo (dataclass) and Optional[CompanyInfo] *)

CompanyInfo(id, name, external_id) ==
    [some |-> TRUE, id |-> id, name |-> name, external_id |-> external_id]
NoCompany == [some |-> FALSE, id |-> 0, name |-> <<>>, external_id |-> <<>>]

-----------------------------------------------------------------------------
(* load_local_benchmarks: {str(item['company_info']['nit']): item}; a later  *)
(* item of the file with the same key replaces an earlier one.               *)

LocalKeys(file) == {Str(file[i].company_info.nit) : i \in DOMAIN file}
LastItemWithKey(file, key) ==
    file[CHOOSE i \in DOMAIN file :
            /\ Str(file[i].company_info.nit) = key
            /\ \A j \in DOMAIN file : Str(file[j].company_info.nit) = key => j <= i]
load_local_benchmarks(file) ==
    [key \in LocalKeys(file) |-> LastItemWithKey(file, key)]

-----------------------------------------------------------------------------
(* EMISService: the two remote operations.  A response of the remote API is  *)
(*   match: [kind: "error" | "empty" | "item", company_id, company_name]     *)
(*   bench: [kind: "error" | "empty" | "data", data]                        *)
(* Each returns the value returned to the caller and the events it caused.   *)

Event(ev, pos) == [ev |-> ev, pos |-> pos]

\* (variant: the identity carries the matched company's id as its tax id)
find_company_fabricated_id(external_id, response, pos) ==
    IF response.kind = "error"
    THEN [value |-> NoCompany,
          events |-> <<Event("match", pos), Event("api_error", pos)>>]
    ELSE IF response.kind = "item"
    THEN [value |-> CompanyInfo(response.company_id, response.company_name,
                                IntToChars(response.company_id)),
          events |-> <<Event("match", pos), Event("sleep", pos)>>]
    ELSE [value |-> NoCompany,
          events |-> <<Event("match", pos), Event("sleep", pos), Event("warning", pos)>>]

find_company_by_external_id(external_id, response, pos) ==
    IF response.kind = "error"
    THEN [value |-> NoCompany,
          events |-> <<Event("match", pos), Event("api_error", pos)>>]
    ELSE IF response.kind = "item"
    THEN [value |-> CompanyInfo(response.company_id, response.company_name, external_id),
          events |-> <<Event("match", pos), Event("sleep", pos)>>]
    ELSE [value |-> NoCompany,
          events |-> <<Event("match", pos), Event("sleep", pos), Event("warning", pos)>>]

\* (variant: no data is reported as an empty dict, not as None)
get_company_benchmark_empty_dict(company_id, response, pos) ==
    IF response.kind = "error"
    THEN [value |-> None,
          events |-> <<Event("benchmark", pos), Event("api_error", pos)>>]
    ELSE IF response.kind = "data" /\ Truthy(response.data)
    THEN [value |-> response.data,
          events |-> <<Event("benchmark", pos), Event("sleep", pos)>>]
    ELSE [value |-> DictV(<<>>),
          events |-> <<Event("benchmark", pos), Event("sleep", pos), Event("info", pos)>>]

get_company_benchmark(company_id, response, pos) ==
    IF response.kind = "error"
    THEN [value |-> None,
          events |-> <<Event("benchmark", pos), Event("api_error", pos)>>]
    ELSE IF response.kind = "data" /\ Truthy(response.data)
    THEN [value |-> response.data,
          events |-> <<Event("benchmark", pos), Event("sleep", pos)>>]
    ELSE [value |-> None,
          events |-> <<Event("benchmark", pos), Event("sleep", pos), Event("info", pos)>>]

-----------------------------------------------------------------------------
(* EMISDashboardApp._handle_search: the loop over params.external_ids.       *)
(* A result carries the number of the search that made it and the position  *)
(* of its tax id in that batch (history).                                   *)

Result(company_info, benchmark_data, search, pos) ==
    [company_info |-> company_info, benchmark_data |-> benchmark_data,
     search |-> search, pos |-> pos]

LocalResult(local_data, search, pos) ==
    Result(CompanyInfo(local_data.company_info.company_id,
                       local_data.company_info.company_name,
                       Str(local_data.company_info.nit)),
           local_data.benchmark_data, search, pos)

\* (variant: the local store is never consulted)
InLocalStoreNever(nit, store) == FALSE
InLocalStore(nit, store) == nit \in DOMAIN store

\* One iteration of the loop for the tax id at position pos.
ProcessNit(acc, nit, response, store, pos, search) ==
    IF InLocalStore(nit, store)
    THEN [results |-> Append(acc.results, LocalResult(store[nit], search, pos)),
          events  |-> Append(acc.events, Event("local", pos))]
    ELSE LET found == find_company_by_external_id(nit, response.match, pos)
         IN  IF found.value.some
             THEN LET bench == get_company_benchmark(found.value.id, response.bench, pos)
                  IN  [results |-> Append(acc.results,
                                          Result(found.value, bench.value, search, pos)),
                       events  |-> acc.events \o found.events \o bench.events]
             ELSE [results |-> acc.results, events |-> acc.events \o found.events]

\* (variant: an ApiException of the match call ends the loop)
RECURSIVE SearchLoopAbortsOnError(_, _, _, _, _, _)
SearchLoopAbortsOnError(acc, ids, responses, store, pos, search) ==
    IF pos > Len(ids) THEN acc
    ELSE LET next == ProcessNit(acc, ids[pos], responses[pos], store, pos, search)
         IN  IF \E i \in DOMAIN next.events :
                    next.events[i] = Event("api_error", pos)
             THEN next
             ELSE SearchLoopAbortsOnError(next, ids, responses, store, pos + 1, search)

RECURSIVE SearchLoop(_, _, _, _, _, _)
SearchLoop(acc, ids, responses, store, pos, search) ==
    IF pos > Len(ids) THEN acc
    ELSE SearchLoop(ProcessNit(acc, ids[pos], responses[pos], store, pos, search),
                    ids, responses, store, pos + 1, search)

all_results(ids, responses, store, search) ==
    SearchLoop([results |-> <<>>, events |-> <<>>], ids, responses, store, 1, search)

-----------------------------------------------------------------------------
(* Pagination: UIComponents.render_pagination_controls and the page slice of *)
(* EMISDashboardApp._render_main_app.                                        *)

PAGE_SIZE == 10

total_pages(total_results, page_size) == (total_results + page_size - 1) \div page_size

\* The controls are drawn only inside "if results:" and only past one page.
ControlsOffered ==
    /\ logged_in
    /\ search_results # <<>>
    /\ ~(total_pages(Len(search_results), PAGE_SIZE) <= 1)
\* (variant: the "Anterior" button is never disabled)
PrevNeverDisabled == FALSE
PrevDisabled == current_page = 1
NextDisabled == current_page = total_pages(Len(search_results), PAGE_SIZE)

\* seq[start:end] of Python for 0 <= start, 0 <= end (0-based, end exclusive)
Slice(seq, start, end) == SubSeq(seq, start + 1, Min(end, Len(seq)))

\* (variant: the slice starts one page late)
start_idx_next_page == current_page * PAGE_SIZE
start_idx == (current_page - 1) * PAGE_SIZE
end_idx   == current_page * PAGE_SIZE
\* The results drawn by the main view: results[start_idx:end_idx]
RenderedResults ==
    IF logged_in /\ search_results # <<>>
    THEN Slice(search_results, start_idx, end_idx)
    ELSE <<>>

-----------------------------------------------------------------------------
(* SessionManager *)

\* (variant: logout() does not delete the keys, and initialize() sets only
\* the keys that are missing)
InitializeKeepsKeys ==
    UNCHANGED <<logged_in, emis_service, search_results, current_page,
                local_benchmarks, industry_names>>

\* initialize() on an empty session: every key takes its default.
Initialize ==
    /\ logged_in' = FALSE
    /\ emis_service' = "None"
    /\ search_results' = <<>>
    /\ current_page' = 1
    /\ local_benchmarks' = load_local_benchmarks(local_file)
    /\ industry_names' = industry_names

\* reset_search(): SEARCH_RESULTS = [] (replaced by all_results when the loop
\* ends) and CURRENT_PAGE = 1
reset_page == 1

\* st.session_state, as a record of its six keys
Session ==
    [logged_in |-> logged_in, emis_service |-> emis_service,
     search_results |-> search_results, current_page |-> current_page,
     local_benchmarks |-> local_benchmarks, industry_names |-> industry_names]

\* (variant: the reset clears the service handle too)
reset_search_clears_service(session) ==
    [session EXCEPT !.search_results = <<>>, !.current_page = reset_page,
                    !.emis_service = "None"]

\* reset_search() on a session
reset_search(session) ==
    [session EXCEPT !.search_results = <<>>, !.current_page = reset_page]

-----------------------------------------------------------------------------
(* The handlers of one user interaction each *)

\* AuthenticationService.login, from the login page
Login(token, setup_fails) ==
    /\ ~logged_in
    /\ IF token = <<>>
       THEN UNCHANGED <<logged_in, emis_service, search_results, current_page,
                        local_benchmarks, industry_names>>
       ELSE IF setup_fails
       THEN Initialize                      \* except: SessionManager.logout()
       ELSE /\ emis_service' = "EMISService"
            /\ logged_in' = TRUE
            /\ UNCHANGED <<search_results, current_page, local_benchmarks, industry_names>>
    /\ last_action' = (IF token = <<>> THEN "login_empty"
                       ELSE IF setup_fails THEN "login_failed" ELSE "login_ok")
    /\ UNCHANGED <<local_file, searches, last_batch, last_responses, calls>>

\* The Logout button of the main view: SessionManager.logout()
Logout ==
    /\ logged_in
    /\ Initialize
    /\ last_action' = "logout"
    /\ last_batch' = <<>>
    /\ last_responses' = <<>>
    /\ calls' = <<>>
    /\ UNCHANGED <<local_file, searches>>

\* EMISDashboardApp._handle_search(params)
HandleSearch(ids, responses) ==
    /\ logged_in
    /\ LET session == reset_search(Session)
           run == all_results(ids, responses, session.local_benchmarks, searches + 1)
       IN  /\ search_results' = run.results
           /\ calls' = run.events
           /\ current_page' = session.current_page
           /\ logged_in' = session.logged_in
           /\ emis_service' = session.emis_service
           /\ local_benchmarks' = session.local_benchmarks
           /\ industry_names' = session.industry_names
    /\ searches' = searches + 1
    /\ last_batch' = ids
    /\ last_responses' = [i \in DOMAIN responses |->
                             <<responses[i].match.kind, responses[i].bench.kind>>]
    /\ last_action' = "search"
    /\ UNCHANGED local_file

\* The "Anterior" button
PreviousPage ==
    /\ ControlsOffered
    /\ ~PrevDisabled
    /\ current_page' = current_page - 1
    /\ last_action' = "previous"
    /\ UNCHANGED <<logged_in, emis_service, search_results, local_benchmarks,
                   industry_names, local_file, searches, last_batch, last_responses, calls>>

\* The "Siguiente" button
NextPage ==
    /\ ControlsOffered
    /\ ~NextDisabled
    /\ current_page' = current_page + 1
    /\ last_action' = "next"
    /\ UNCHANGED <<logged_in, emis_service, search_results, local_benchmarks,
                   industry_names, local_file, searches, last_batch, last_responses, calls>>

-----------------------------------------------------------------------------
(* Python's float() and the "{:.2f}" format, on values held in tenths *)

RECURSIVE CharsToInt(_)
CharsToInt(cs) ==
    IF cs = <<>> THEN 0
    ELSE 10 * CharsToInt(SubSeq(cs, 1, Len(cs) - 1)) + (IndexIn(Digits, cs[Len(cs)]) - 1)

AllDigits(cs) == \A i \in DOMAIN cs : IsDigit(cs[i])
DotsIn(cs) == {i \in DOMAIN cs : cs[i] = "."}

\* float(str): digits with at most one ".", and a digit on one side of it at
\* least.  Texts of the model hold at most one digit after the ".".
IsFloatText(cs) ==
    IF DotsIn(cs) = {} THEN cs # <<>> /\ AllDigits(cs)
    ELSE /\ Cardinality(DotsIn(cs)) = 1
         /\ Len(cs) > 1
         /\ \A i \in DOMAIN cs : cs[i] = "." \/ IsDigit(cs[i])
FloatOfText(cs) ==
    IF DotsIn(cs) = {} THEN 10 * CharsToInt(cs)
    ELSE LET dot == CHOOSE i \in DotsIn(cs) : TRUE
         IN  10 * CharsToInt(SubSeq(cs, 1, dot - 1))
               + (IF dot < Len(cs) THEN IndexIn(Digits, cs[dot + 1]) - 1 ELSE 0)

\* float(v): [raised, n]; a str that is no number raises ValueError, None, a
\* dict or a list TypeError.
Float(v) ==
    CASE v.t = "int"   -> [raised |-> FALSE, n |-> 10 * v.n]
      [] v.t = "float" -> [raised |-> FALSE, n |-> v.n]
      [] v.t = "str"   -> IF IsFloatText(v.s) THEN [raised |-> FALSE, n |-> FloatOfText(v.s)]
                          ELSE [raised |-> TRUE, n |-> 0]
      [] OTHER         -> [raised |-> TRUE, n |-> 0]

\* f"{x:.2f}" of a non-negative float
Format2f(n) == IntToChars(n \div 10) \o <<".", Digits[(n % 10) + 1], "0">>

\* str(v) of a value shown in a label: None prints as "None"
StrOf(v) == IF v.t = "none" THEN <<"N","o","n","e">> ELSE Str(v)

-----------------------------------------------------------------------------
(* UIComponents.render_benchmark_data *)

text_NA    == <<"N","/","A">>
text_Indus == <<"I","n","d","u","s",".">>

\* s.get('industry_code') or s.get('industryCode')
IndustryCodeOf(score) ==
    Or(Get(score, k_industry_code, None), Get(score, k_industryCode, None))

\* data.get('financial_scores') or data.get('financialScores')
FinancialScoresOf(data) ==
    Or(Get(data, k_financial_scores, None), Get(data, k_financialScores, None))

MapGet(map, key, default) == IF key \in DOMAIN map THEN map[key] ELSE default

\* One tab title: f"{industry_map.get(str(code), 'Indus.')} ({code})"
TabTitle(industry_map, score) ==
    LET code == IndustryCodeOf(score)
    IN  MapGet(industry_map, StrOf(code), text_Indus) \o <<" ", "(">> \o StrOf(code) \o <<")">>

tab_titles(industry_map, financial_scores) ==
    [i \in DOMAIN financial_scores.d |-> TabTitle(industry_map, financial_scores.d[i])]

\* float(info.get(snake, info.get(camel, 0)) or 0)
NumericField(info, snake, camel) ==
    Float(Or(Get(info, snake, Get(info, camel, IntV(0))), IntV(0)))

\* The panel of one score block: the three metrics and whether the risk
\* chart is drawn.  raised: the panel ended in an exception.
Panel(data, score_data) ==
    LET period         == Or(Get(score_data, k_period, None), Get(data, k_period, DictV(<<>>)))
        benchmark_info == Get(score_data, k_benchmark, DictV(<<>>))
    IN  IF ~IsDict(period) \/ ~IsDict(benchmark_info)
        THEN [raised |-> TRUE, risk |-> <<>>, score |-> <<>>, ranking |-> <<>>,
              chart |-> FALSE]
        ELSE
        LET company_count == Float(Or(Get(period, k_company_count,
                                          Get(period, k_companyCount, IntV(5000))),
                                      IntV(5000)))
            score   == NumericField(benchmark_info, k_benchmark_score, k_benchmarkScore)
            ranking == NumericField(benchmark_info, k_average_ranking, k_averageRanking)
            risk    == Get(benchmark_info, k_risk, None)
        IN  IF company_count.raised \/ score.raised \/ ranking.raised
            THEN [raised |-> TRUE, risk |-> <<>>, score |-> <<>>, ranking |-> <<>>,
                  chart |-> FALSE]
            ELSE [raised  |-> FALSE,
                  risk    |-> StrOf(Get(benchmark_info, k_risk, StrV(text_NA))),
                  score   |-> Format2f(score.n),
                  ranking |-> Format2f(ranking.n),
                  chart   |-> Truthy(risk) /\ Get(data, k_companyId, None) # None]

\* What render_benchmark_data shows for one payload.
render_benchmark_data(industry_map, data) ==
    IF ~Truthy(data) THEN [kind |-> "info", titles |-> <<>>, panels |-> <<>>]
    ELSE LET financial_scores == FinancialScoresOf(data)
         IN  IF ~Truthy(financial_scores)
             THEN [kind |-> "info", titles |-> <<>>, panels |-> <<>>]
             ELSE [kind   |-> "tabs",
                   titles |-> tab_titles(industry_map, financial_scores),
                   panels |-> [i \in DOMAIN financial_scores.d |->
                                 Panel(data, financial_scores.d[i])]]

RenderRaises(view) == \E i \in DOMAIN view.panels : view.panels[i].raised

-----------------------------------------------------------------------------
(* EMISDashboardApp._flatten_dict and _prepare_data_for_excel.  A row is a   *)
(* dict from column names (strings) to values, kept as <<name, value>> pairs *)
(* in insertion order.                                                       *)

\* k.title().replace('_', '')
ColumnPart(k) == Join(StripUnderscores(Title(k)))

\* row[name] = value
SetItem(row, name, value) ==
    IF \E i \in DOMAIN row : row[i][1] = name
    THEN [i \in DOMAIN row |-> IF row[i][1] = name THEN <<name, value>> ELSE row[i]]
    ELSE Append(row, <<name, value>>)

\* row.update(items), dict(items)
RECURSIVE Update(_, _)
Update(row, items) ==
    IF items = <<>> THEN row
    ELSE Update(SetItem(row, Head(items)[1], Head(items)[2]), Tail(items))

\* (variant: the separator is left out)
new_key_without_sep(parent_key, sep, k) ==
    IF parent_key # "" THEN parent_key \o ColumnPart(k) ELSE ColumnPart(k)
new_key(parent_key, sep, k) ==
    IF parent_key # "" THEN parent_key \o sep \o ColumnPart(k) ELSE ColumnPart(k)

RECURSIVE flatten_items(_, _, _)
flatten_items(kvs, parent_key, sep) ==
    IF kvs = <<>> THEN <<>>
    ELSE LET k  == Head(kvs)[1]
             v  == Head(kvs)[2]
             nk == new_key(parent_key, sep, k)
         IN  (IF IsDict(v) THEN Update(<<>>, flatten_items(v.d, nk, sep))
              ELSE << <<nk, v>> >>)
             \o flatten_items(Tail(kvs), parent_key, sep)

_flatten_dict(d, parent_key, sep) == Update(<<>>, flatten_items(d.d, parent_key, sep))

\* The sections of one score block written into its row.
RECURSIVE SectionsInto(_, _)
SectionsInto(row, kvs) ==
    IF kvs = <<>> THEN row
    ELSE LET section_name == Head(kvs)[1]
             section_data == Head(kvs)[2]
         IN  SectionsInto(
                 IF IsDict(section_data)
                 THEN Update(row, _flatten_dict(section_data, Join(Title(section_name)), "_"))
                 ELSE SetItem(row, ColumnPart(section_name), section_data),
                 Tail(kvs))

company_base(company_info) ==
    << <<"NIT Buscado", StrV(company_info.external_id)>>,
       <<"Nombre Empresa", StrV(company_info.name)>>,
       <<"ID EMIS", IntV(company_info.id)>> >>

\* The row of one score block of one company.
Row(industry_map, company_info, score) ==
    LET industry_code == IndustryCodeOf(score)
        name == MapGet(industry_map,
                       IF Truthy(industry_code) THEN StrOf(industry_code) ELSE <<>>,
                       text_NA)
    IN  SectionsInto(SetItem(company_base(company_info), "Nombre Industria", StrV(name)),
                     score.d)

\* flat_data: the rows of every result that has a payload with score blocks.
RECURSIVE _prepare_data_for_excel(_, _)
_prepare_data_for_excel(industry_map, results) ==
    IF results = <<>> THEN <<>>
    ELSE LET result == Head(results)
             benchmark_data == result.benchmark_data
             financial_scores ==
                 IF Truthy(benchmark_data) THEN FinancialScoresOf(benchmark_data) ELSE None
         IN  (IF ~Truthy(benchmark_data) \/ ~Truthy(financial_scores)
                    \/ ~result.company_info.some
              THEN <<>>
              ELSE [i \in DOMAIN financial_scores.d |->
                      Row(industry_map, result.company_info, financial_scores.d[i])])
             \o _prepare_data_for_excel(industry_map, Tail(results))

-----------------------------------------------------------------------------
(* The data the model runs on *)

nit_local  == <<"9","0","0","1","2","3","4","5","6">>
nit_remote == <<"8","0","0","9","9","9","9","9","9">>
TaxIds == {nit_local, nit_remote}

name_local  == <<"L","o","c","a","l"," ","S","A">>
name_remote == <<"R","e","m","o","t","a"," ","S","A","S">>
code_C10 == <<"C","1","0">>
code_F41 == <<"F","4","1">>

\* A field that a block leaves out.
Absent == [t |-> "absent", n |-> 0, s |-> <<>>, d |-> <<>>]
Field(k, v) == IF v = Absent THEN <<>> ELSE << <<k, v>> >>

\* One per-industry score block: the spelling of its keys is camel-case or
\* snake-case; more sections may follow the benchmark.
ScoreBlockWith(camel, code, count, risk, score, ranking, sections) ==
    DictV(<< <<IF camel THEN k_industryCode ELSE k_industry_code, code>>,
             <<k_period, DictV(<< <<IF camel THEN k_companyCount ELSE k_company_count,
                                    count>> >>)>>,
             <<k_benchmark,
               DictV(Field(k_risk, risk)
                     \o Field(IF camel THEN k_benchmarkScore ELSE k_benchmark_score, score)
                     \o Field(IF camel THEN k_averageRanking ELSE k_average_ranking, ranking))
             >> >> \o sections)
ScoreBlock(camel, code, count, risk, score, ranking) ==
    ScoreBlockWith(camel, code, count, risk, score, ranking, <<>>)

Payload(camel, company_id, blocks) ==
    DictV(<< <<IF camel THEN k_companyId ELSE k_company_id, IntV(company_id)>>,
             <<IF camel THEN k_financialScores ELSE k_financial_scores, ListV(blocks)>> >>)

\* The benchmark of company 4321: one industry block scored 72.5, ranked 300
\* among 5000.
payload_4321 ==
    Payload(TRUE, 4321,
            << ScoreBlock(TRUE, StrV(code_C10), IntV(5000), StrV(<<"B">>),
                          FloatV(725), IntV(300)) >>)

payload_4321_snake ==
    Payload(FALSE, 4321,
            << ScoreBlock(FALSE, StrV(code_C10), IntV(5000), StrV(<<"B">>),
                          FloatV(725), IntV(300)) >>)

payload_local ==
    Payload(FALSE, 1001,
            << ScoreBlock(FALSE, StrV(code_F41), IntV(1200), StrV(<<"A">>),
                          FloatV(881), IntV(15)) >>)

\* ./data/benchmarks.json: the nit is a JSON number there.
LocalItem(nit, company_id, company_name, benchmark_data) ==
    [company_info |-> [nit |-> nit, company_id |-> company_id,
                       company_name |-> company_name],
     benchmark_data |-> benchmark_data]
DefaultLocalFile == << LocalItem(IntV(900123456), 1001, name_local, payload_local) >>

\* ./data/industries.json
DefaultIndustryNames == [c \in {code_C10} |-> <<"F","o","o","d">>]

\* What the remote API may answer for one tax id.
MatchResponses ==
    { [kind |-> "error", company_id |-> 0, company_name |-> <<>>],
      [kind |-> "empty", company_id |-> 0, company_name |-> <<>>],
      [kind |-> "item",  company_id |-> 4321, company_name |-> name_remote] }
BenchResponses ==
    { [kind |-> "error", data |-> None],
      [kind |-> "empty", data |-> None],
      [kind |-> "data",  data |-> payload_4321] }
\* The benchmark answer matters only after a match.
Responses ==
    { r \in [match : MatchResponses, bench : BenchResponses] :
        r.match.kind # "item" => r.bench.kind = "empty" }

-----------------------------------------------------------------------------
(* Bounds and the inputs drawn within them *)

MaxShort == 2       \* batches up to this length are drawn in full
MaxPattern == 1     \* long batches repeat a pattern up to this length
MaxSearches == 2    \* searches in one run of the model

SeqsUpTo(S, n) == UNION {[1..k -> S] : k \in 1..n}

\* A pattern repeated up to length n.
Cycle(pattern, n) == [i \in 1..n |-> pattern[((i - 1) % Len(pattern)) + 1]]

\* Lengths around the page boundaries of PAGE_SIZE.
LongLengths == {PAGE_SIZE, PAGE_SIZE + 1, 2 * PAGE_SIZE, 2 * PAGE_SIZE + 3}

\* One position of a batch: a tax id and what the remote API would answer
\* for it.  The remote is not asked about an id of the local file, and its
\* answer there is fixed.
NotAsked == [match |-> [kind |-> "empty", company_id |-> 0, company_name |-> <<>>],
             bench |-> [kind |-> "empty", data |-> None]]
Positions ==
    { [nit |-> nit, response |-> r] : nit \in TaxIds, r \in Responses }
    \ { p \in [nit : LocalKeys(DefaultLocalFile), response : Responses] :
            p.response # NotAsked }

\* A search input: the tax ids and, per position, the remote answers.
Input(ps) == [ids |-> [i \in DOMAIN ps |-> ps[i].nit],
              responses |-> [i \in DOMAIN ps |-> ps[i].response]]
ShortInputs == {Input(ps) : ps \in SeqsUpTo(Positions, MaxShort)}
LongInputs ==
    {Input(Cycle(ps, n)) : ps \in SeqsUpTo(Positions, MaxPattern), n \in LongLengths}
SearchInputs == ShortInputs \cup LongInputs

-----------------------------------------------------------------------------
(* The specification: one session of the dashboard *)

Init ==
    /\ local_file = DefaultLocalFile
    /\ industry_names = DefaultIndustryNames
    /\ logged_in = FALSE
    /\ emis_service = "None"
    /\ search_results = <<>>
    /\ current_page = 1
    /\ local_benchmarks = load_local_benchmarks(local_file)
    /\ searches = 0
    /\ last_batch = <<>>
    /\ last_responses = <<>>
    /\ calls = <<>>
    /\ last_action = "init"

Tokens == {<<>>, <<"t","o","k">>}

DoLogin == \E token \in Tokens, setup_fails \in BOOLEAN : Login(token, setup_fails)
DoSearch ==
    /\ searches < MaxSearches
    /\ \E input \in SearchInputs : HandleSearch(input.ids, input.responses)

Next ==
    \/ DoLogin
    \/ Logout
    \/ DoSearch
    \/ PreviousPage
    \/ NextPage

Spec == Init /\ [][Next]_vars

-----------------------------------------------------------------------------
(* Properties of the search, the result list and the pagination *)

ResultsAt(pos) == {i \in DOMAIN search_results : search_results[i].pos = pos}
RemoteCallsAt(pos) ==
    {i \in DOMAIN calls : calls[i].pos = pos /\ calls[i].ev \in {"match", "benchmark"}}
IsLocal(pos) == last_batch[pos] \in DOMAIN local_benchmarks
MatchKind(pos) == last_responses[pos][1]
BenchKind(pos) == last_responses[pos][2]
CeilDiv(n, p) == (n \div p) + (IF n % p = 0 THEN 0 ELSE 1)
LastPage == Max(1, CeilDiv(Len(search_results), PAGE_SIZE))

\* C1: the stored result list holds only results of the latest batch: it is
\* no longer than the batch, every result's tax id is the tax id at its
\* position of the batch, the results are in input order, and none was made
\* by an earlier search.
C1_ResultsOfLatestBatchOnly ==
    /\ Len(search_results) <= Len(last_batch)
    /\ \A i \in DOMAIN search_results :
          /\ search_results[i].search = searches
          /\ search_results[i].pos \in DOMAIN last_batch
          /\ search_results[i].company_info.external_id = last_batch[search_results[i].pos]
          /\ \E j \in DOMAIN last_batch :
                search_results[i].company_info.external_id = last_batch[j]
    /\ \A i, j \in DOMAIN search_results :
          i < j => search_results[i].pos < search_results[j].pos

\* A second search has replaced the results of the first, and dropped a tax id.
C1_Witness ==
    /\ searches = 2
    /\ Len(search_results) >= 1
    /\ Len(search_results) < Len(last_batch)

\* C2: a tax id of the batch that is a key of the local store causes no
\* remote call (neither match nor benchmark), and its result carries the
\* cached identity and the cached payload.
C2_LocalStoreBypassesRemote ==
    \A pos \in DOMAIN last_batch :
        IsLocal(pos) =>
            /\ RemoteCallsAt(pos) = {}
            /\ \E i \in ResultsAt(pos) :
                  LET item == local_benchmarks[last_batch[pos]]
                  IN  /\ search_results[i].company_info =
                            CompanyInfo(item.company_info.company_id,
                                        item.company_info.company_name, last_batch[pos])
                      /\ search_results[i].benchmark_data = item.benchmark_data

\* A batch with a local tax id and a tax id that went to the remote API.
C2_Witness ==
    /\ last_action = "search"
    /\ \E pos \in DOMAIN last_batch : IsLocal(pos) /\ ResultsAt(pos) # {}
    /\ \E pos \in DOMAIN last_batch : ~IsLocal(pos) /\ RemoteCallsAt(pos) # {}

\* C3: a tax id not in the local store whose match returns nothing has no
\* result; one whose match resolves and whose benchmark returns no data has
\* exactly one result, with that identity and no payload.
C3_NotFoundOmittedNoDataKept ==
    \A pos \in DOMAIN last_batch :
        ~IsLocal(pos) =>
            /\ MatchKind(pos) = "empty" => ResultsAt(pos) = {}
            /\ (MatchKind(pos) = "item" /\ BenchKind(pos) = "empty") =>
                  /\ Cardinality(ResultsAt(pos)) = 1
                  /\ \A i \in ResultsAt(pos) :
                        /\ search_results[i].company_info.some
                        /\ search_results[i].company_info.external_id = last_batch[pos]
                        /\ search_results[i].company_info.id = 4321
                        /\ search_results[i].benchmark_data = None

\* One batch with a tax id that was not found and one without benchmark data.
C3_Witness ==
    /\ last_action = "search"
    /\ \E pos \in DOMAIN last_batch : ~IsLocal(pos) /\ MatchKind(pos) = "empty"
    /\ \E pos \in DOMAIN last_batch :
          ~IsLocal(pos) /\ MatchKind(pos) = "item" /\ BenchKind(pos) = "empty"
          /\ ResultsAt(pos) # {}

Processed(pos) ==
    \E i \in DOMAIN calls : calls[i].pos = pos /\ calls[i].ev \in {"local", "match"}

C5_PageSlice ==
    (logged_in /\ search_results # <<>>) =>
        LET N  == Len(search_results)
            lo == (current_page - 1) * PAGE_SIZE
            hi == Min(current_page * PAGE_SIZE, N)
        IN  /\ Len(RenderedResults) = Max(0, hi - lo)
            /\ \A j \in DOMAIN RenderedResults :
                  RenderedResults[j] = search_results[lo + j]

\* 23 results: page 3 draws the three results of indices 20, 21, 22.
C5_Witness ==
    /\ Len(search_results) = 2 * PAGE_SIZE + 3
    /\ current_page = 3
    /\ Len(RenderedResults) = 3
    /\ RenderedResults[1] = search_results[2 * PAGE_SIZE + 1]

\* C6: the page stays within 1 .. max(1, ceil(N / PAGE_SIZE)); "previous" is
\* never taken on page 1 nor "next" on the last page; and with at most one
\* page the controls are not offered.
C6_PageWithinRange ==
    /\ [](1 <= current_page /\ current_page <= LastPage)
    /\ [](CeilDiv(Len(search_results), PAGE_SIZE) <= 1 => ~ControlsOffered)
    /\ [][/\ (current_page' < current_page /\ last_action' = "previous")
                => current_page > 1
          /\ (current_page' > current_page /\ last_action' = "next")
                => current_page < LastPage
          /\ (current_page' # current_page /\ last_action' \in {"previous", "next"})
                => ControlsOffered]_vars

\* "next" has reached the last of three pages.
C6_Witness ==
    /\ last_action = "next"
    /\ current_page = 3
    /\ current_page = LastPage

-----------------------------------------------------------------------------
(* A second specification: sessions over local files whose payloads vary in *)
(* spelling, in the values of the numeric fields and in their sections, and *)
(* a remote API that answers in either spelling.                            *)

ScoreValues   == {FloatV(725), StrV(<<"7","2",".","5">>), StrV(text_NA), None, Absent}
RankingValues == {IntV(300), StrV(text_NA), None, Absent}
SectionKinds  == {"none", "siblings", "case", "underscores", "section"}

Sections(kind) ==
    CASE kind = "siblings" ->
            << <<k_growth, DictV(<< <<k_score, IntV(1)>> >>)>>,
               <<k_size,   DictV(<< <<k_score, IntV(2)>> >>)>> >>
      [] kind = "case" ->
            << <<k_trend, DictV(<< <<k_valueUp, IntV(1)>>, <<k_valueup, IntV(2)>> >>)>> >>
      [] kind = "underscores" ->
            << <<k_trend, DictV(<< <<k_net_margin, IntV(1)>>,
                                   <<k_net__margin, IntV(2)>> >>)>> >>
      [] kind = "section" ->
            << <<k_size_info, DictV(<< <<k_total, IntV(1)>> >>)>>,
               <<k_size, DictV(<< <<k_info, DictV(<< <<k_total, IntV(2)>> >>)>> >>)>> >>
      [] OTHER -> <<>>

\* The variations: one of score, ranking and sections departs from the plain
\* block at a time.
Variations ==
    { v \in [camel : BOOLEAN, score : ScoreValues, ranking : RankingValues,
             sections : SectionKinds] :
        Cardinality({f \in {"score", "ranking", "sections"} :
                        \/ f = "score" /\ v.score # FloatV(725)
                        \/ f = "ranking" /\ v.ranking # IntV(300)
                        \/ f = "sections" /\ v.sections # "none"}) <= 1 }

VariedPayload(v) ==
    Payload(v.camel, 1001,
            << ScoreBlockWith(v.camel, StrV(code_C10), IntV(1200), StrV(<<"A">>),
                              v.score, v.ranking, Sections(v.sections)) >>)

LocalFiles ==
    { << LocalItem(IntV(900123456), 1001, name_local, VariedPayload(v)) >> :
        v \in Variations }

\* The positions of a batch here: the local tax id, or the remote one
\* answered with the benchmark of company 4321 in either spelling.
FoundWith(data) ==
    [match |-> [kind |-> "item", company_id |-> 4321, company_name |-> name_remote],
     bench |-> [kind |-> "data", data |-> data]]
PayloadPositions ==
    { [nit |-> nit_local, response |-> NotAsked],
      [nit |-> nit_remote, response |-> FoundWith(payload_4321)],
      [nit |-> nit_remote, response |-> FoundWith(payload_4321_snake)] }
PayloadInputs == {Input(ps) : ps \in SeqsUpTo(PayloadPositions, MaxShort)}

InitPayload ==
    /\ local_file \in LocalFiles
    /\ industry_names = DefaultIndustryNames
    /\ logged_in = FALSE
    /\ emis_service = "None"
    /\ search_results = <<>>
    /\ current_page = 1
    /\ local_benchmarks = load_local_benchmarks(local_file)
    /\ searches = 0
    /\ last_batch = <<>>
    /\ last_responses = <<>>
    /\ calls = <<>>
    /\ last_action = "init"

DoSearchPayload ==
    /\ searches < MaxSearches
    /\ \E input \in PayloadInputs : HandleSearch(input.ids, input.responses)

NextPayload ==
    \/ DoLogin
    \/ Logout
    \/ DoSearchPayload

SpecPayload == InitPayload /\ [][NextPayload]_vars

-----------------------------------------------------------------------------
(* Properties of the rendering and the flattening of payloads *)

\* The camel-case spelling of a snake-case key: each "_" is dropped and the
\* character after it upper-cased.
RECURSIVE CamelKey(_)
CamelKey(k) ==
    IF k = <<>> THEN <<>>
    ELSE IF Head(k) = "_"
    THEN (IF Len(k) > 1 THEN CamelKey(<<ToUpper(k[2])>> \o SubSeq(k, 3, Len(k))) ELSE <<>>)
    ELSE <<Head(k)>> \o CamelKey(Tail(k))

\* The same payload with every key in camel-case.
RECURSIVE ToCamel(_)
ToCamel(v) ==
    CASE v.t = "dict" -> DictV([i \in DOMAIN v.d |-> <<CamelKey(v.d[i][1]), ToCamel(v.d[i][2])>>])
      [] v.t = "list" -> ListV([i \in DOMAIN v.d |-> ToCamel(v.d[i])])
      [] OTHER -> v

ColumnNames(rows) == [i \in DOMAIN rows |-> [j \in DOMAIN rows[i] |-> rows[i][j][1]]]
RowsOf(result, payload) ==
    _prepare_data_for_excel(industry_names,
                            <<[result EXCEPT !.benchmark_data = payload]>>)
HasColumn(row, name) == \E j \in DOMAIN row : row[j][1] = name
Column(row, name) == row[CHOOSE j \in DOMAIN row : row[j][1] = name][2]
BlocksOf(payload) ==
    IF Truthy(payload) /\ Truthy(FinancialScoresOf(payload))
    THEN FinancialScoresOf(payload).d ELSE <<>>

\* C7: a payload and the same payload spelled in camel-case give the same
\* tab labels and the same flattened column names.
C7_DualNamingSameLabelsAndColumns ==
    \A i \in DOMAIN search_results :
        LET result == search_results[i]
            data   == result.benchmark_data
        IN  /\ render_benchmark_data(industry_names, data).titles
                  = render_benchmark_data(industry_names, ToCamel(data)).titles
            /\ ColumnNames(RowsOf(result, data)) = ColumnNames(RowsOf(result, ToCamel(data)))

\* The part of C7 that the code keeps: the tab labels agree.
C7_TabLabelsAgree ==
    \A i \in DOMAIN search_results :
        LET data == search_results[i].benchmark_data
        IN  render_benchmark_data(industry_names, data).titles
               = render_benchmark_data(industry_names, ToCamel(data)).titles

\* pd.to_numeric(errors='coerce').fillna(0) of render_summary_charts
CoerceToNumeric(v) == IF Float(v).raised THEN 0 ELSE Float(v).n

\* The value a block holds for a numeric field, in either spelling.
RawField(info, snake, camel) == Get(info, snake, Get(info, camel, Absent))
NotNumeric(v) == v = Absent \/ v = None \/ (v.t = "str" /\ ~IsFloatText(v.s))

\* C8: a block whose benchmark score or ranking is absent, None or a text
\* that is no number is processed without an exception: its panel shows
\* 0.00 for that metric and the chart column of its row is 0.
C8_NumericCoercionNeverRaises ==
    \A i \in DOMAIN search_results :
        LET result == search_results[i]
            data   == result.benchmark_data
            view   == render_benchmark_data(industry_names, data)
            rows   == RowsOf(result, data)
        IN  \A b \in DOMAIN BlocksOf(data) :
                LET info == Get(BlocksOf(data)[b], k_benchmark, DictV(<<>>))
                IN  /\ NotNumeric(RawField(info, k_benchmark_score, k_benchmarkScore)) =>
                          /\ ~view.panels[b].raised
                          /\ view.panels[b].score = <<"0", ".", "0", "0">>
                          /\ HasColumn(rows[b], "Benchmark_Benchmarkscore") =>
                                CoerceToNumeric(Column(rows[b], "Benchmark_Benchmarkscore")) = 0
                    /\ NotNumeric(RawField(info, k_average_ranking, k_averageRanking)) =>
                          /\ ~view.panels[b].raised
                          /\ view.panels[b].ranking = <<"0", ".", "0", "0">>
                          /\ HasColumn(rows[b], "Benchmark_Averageranking") =>
                                CoerceToNumeric(Column(rows[b], "Benchmark_Averageranking")) = 0

\* The leaves of a block: its values that are no dict, at any depth.
RECURSIVE LeafCount(_)
LeafCount(kvs) ==
    IF kvs = <<>> THEN 0
    ELSE (IF IsDict(Head(kvs)[2]) THEN LeafCount(Head(kvs)[2].d) ELSE 1)
         + LeafCount(Tail(kvs))

FixedColumns == {"NIT Buscado", "Nombre Empresa", "ID EMIS", "Nombre Industria"}

\* C9: the row of a block has one column per leaf of the block, next to the
\* fixed columns: no two key paths share a column name.
C9_FlatteningCollisionFree ==
    \A i \in DOMAIN search_results :
        LET result == search_results[i]
            data   == result.benchmark_data
            rows   == RowsOf(result, data)
        IN  \A b \in DOMAIN BlocksOf(data) :
                Len(rows[b]) = Cardinality(FixedColumns) + LeafCount(BlocksOf(data)[b].d)

IsScenario ==
    /\ last_batch = <<nit_local, nit_remote>>
    /\ last_responses[2] = <<"item", "data">>

ScenarioHolds(score_column, ranking_column) ==
    /\ Len(search_results) = 2
    /\ search_results[1].company_info.external_id = nit_local
    /\ search_results[2].company_info.external_id = nit_remote
    /\ search_results[2].company_info.id = 4321
    /\ LET rows == RowsOf(search_results[2], search_results[2].benchmark_data)
       IN  /\ Len(rows) = 1
           /\ HasColumn(rows[1], score_column)
           /\ Float(Column(rows[1], score_column)) = [raised |-> FALSE, n |-> 725]
           /\ HasColumn(rows[1], ranking_column)
           /\ Float(Column(rows[1], ranking_column)) = [raised |-> FALSE, n |-> 3000]

-----------------------------------------------------------------------------
(* Properties of the lookups, the throttle and the session *)

\* C11: a payload and the same payload in the other spelling show the same
\* metrics in every panel, and the risk chart is drawn for the one exactly
\* when it is drawn for the other.
C11_DualNamingSameMetricsAndChart ==
    \A i \in DOMAIN search_results :
        LET data  == search_results[i].benchmark_data
            view  == render_benchmark_data(industry_names, data)
            camel == render_benchmark_data(industry_names, ToCamel(data))
        IN  /\ view.kind = camel.kind
            /\ DOMAIN view.panels = DOMAIN camel.panels
            /\ \A b \in DOMAIN view.panels :
                  /\ view.panels[b].raised = camel.panels[b].raised
                  /\ view.panels[b].risk = camel.panels[b].risk
                  /\ view.panels[b].score = camel.panels[b].score
                  /\ view.panels[b].ranking = camel.panels[b].ranking
                  /\ view.panels[b].chart = camel.panels[b].chart

\* The part of C11 that the code keeps: the metrics agree.
C11_MetricsAgree ==
    \A i \in DOMAIN search_results :
        LET data  == search_results[i].benchmark_data
            view  == render_benchmark_data(industry_names, data)
            camel == render_benchmark_data(industry_names, ToCamel(data))
        IN  /\ view.kind = camel.kind
            /\ DOMAIN view.panels = DOMAIN camel.panels
            /\ \A b \in DOMAIN view.panels :
                  /\ view.panels[b].raised = camel.panels[b].raised
                  /\ view.panels[b].risk = camel.panels[b].risk
                  /\ view.panels[b].score = camel.panels[b].score
                  /\ view.panels[b].ranking = camel.panels[b].ranking

IsRemoteCall(i) == calls[i].ev \in {"match", "benchmark"}

\* C12: in the events of a batch, every remote call that is followed by
\* another remote call has the throttle pause between the two, whatever the
\* call returned.
C12_EveryRemoteCallThrottled ==
    \A i, j \in DOMAIN calls :
        (i < j /\ IsRemoteCall(i) /\ IsRemoteCall(j)) =>
            \E k \in DOMAIN calls : i < k /\ k < j /\ calls[k].ev = "sleep"

\* The part of C12 that the code keeps: a remote call that did not fail is
\* followed at once by the pause, and the calls of a tax id come in the order
\* match, benchmark.
C12_AnsweredCallsThrottled ==
    \A i \in DOMAIN calls :
        IsRemoteCall(i) =>
            /\ i < Len(calls)
            /\ calls[i + 1].ev \in {"sleep", "api_error"}
            /\ calls[i + 1].pos = calls[i].pos

\* C13: the reset at the start of a search empties the results and sets the
\* page to 1, and leaves the login flag, the service handle, the local
\* benchmarks and the industry names as they were; so does the search.
C13_ResetSearchFrame ==
    [][searches' # searches =>
          LET session == reset_search(Session)
          IN  /\ session.search_results = <<>>
              /\ session.current_page = 1
              /\ session.logged_in = logged_in
              /\ session.emis_service = emis_service
              /\ session.local_benchmarks = local_benchmarks
              /\ session.industry_names = industry_names
              /\ current_page' = 1
              /\ logged_in' = logged_in
              /\ emis_service' = emis_service
              /\ local_benchmarks' = local_benchmarks
              /\ industry_names' = industry_names]_vars

\* A second search that found nothing: the results of the first are gone and
\* the session is still logged in.
C13_Witness ==
    /\ last_action = "search"
    /\ searches = 2
    /\ search_results = <<>>
    /\ current_page = 1
    /\ logged_in
    /\ emis_service = "EMISService"

DefaultSession ==
    /\ ~logged_in
    /\ emis_service = "None"
    /\ search_results = <<>>
    /\ current_page = 1

\* C14: a logged-in session has its service handle; a search runs only in a
\* logged-in session; and after a logout or a failed client setup the
\* session holds its defaults.
C14_SessionInvariant ==
    /\ [](logged_in => emis_service # "None")
    /\ [](last_action \in {"logout", "login_failed"} => DefaultSession)
    /\ [][searches' # searches => (logged_in /\ logged_in')]_vars

\* The client setup has failed in a session that had searched and logged out.
C14_Witness ==
    /\ last_action = "login_failed"
    /\ searches >= 1
    /\ DefaultSession

====
